---- MODULE Spec2Model ----
(***************************************************************************)
(* A model of MekiCopy (src/mekicopy.py): the region-selection overlay     *)
(* (SelectionUI), the bookmark file (load_bookmarks / save_bookmarks) and  *)
(* the capture -> OCR -> clipboard pipeline (ocr_and_copy).                *)
(*                                                                         *)
(* Python values are modelled as follows.                                  *)
(*   - None | value      : the empty set | a singleton set {value}         *)
(*   - str               : a sequence of one-character strings             *)
(*   - dict[str, Bookmark]: a function from names to bookmark records      *)
(*   - Rect, Region, Bookmark : records with the dataclass' fields         *)
(***************************************************************************)
EXTENDS Integers, Sequences, FiniteSets, TLC

VARIABLES
    selection,      \* SelectionUI.selection: {} or {Rect}
    drag_mode,      \* SelectionUI.drag_mode: "none" (None), "new", "move", "left", ...
    start_point,    \* SelectionUI.start_point: {} or {<<x, y>>}
    bookmarks,      \* SelectionUI.bookmarks: the dict loaded at construction
    on_confirm,     \* whether an on_confirm callback was passed to SelectionUI
    virtual_left,   \* SelectionUI.virtual_left  (monitor["left"])
    virtual_top,    \* SelectionUI.virtual_top   (monitor["top"])
    root,           \* the overlay window: "open", "withdrawn", "destroyed", "absent"
    emitted,        \* the Regions handed to on_confirm, in order
    pressed,        \* environment: mouse button 1 is held (last pointer event was not a release)
    file,           \* BOOKMARKS_FILE: {} (does not exist) or {text}
    call,           \* what the last ocr_and_copy call did (see ocr_and_copy)
    clipboard,      \* the system clipboard: {} (never written) or {text}
    typed_name,     \* environment: the name the user types at the name prompt
    hit,            \* SpecHit: the rectangle, the point and the result of _edge_hit_test
    store,          \* SpecStore: the dict given to save_bookmarks / returned by load_bookmarks
    preview_region, \* ControlPanel.preview_region: {} or {Region}
    capture_region, \* ControlPanel.capture_region: {} or {Region}
    prompt,         \* the name prompt of _on_save_bookmark (askstring) is waiting for its answer
    norm            \* SpecRect: a Rect object and what Rect.normalized returned for it

vars == << selection, drag_mode, start_point, bookmarks, on_confirm, virtual_left,
           virtual_top, root, emitted, pressed, file, call, clipboard, typed_name,
           hit, store, preview_region, capture_region, prompt, norm >>

-----------------------------------------------------------------------------
(* Program constants *)

EDGE_GRAB_PX == 8
MIN_SIZE_PX == 10

-----------------------------------------------------------------------------
(* Python built-ins used by the program, on strings as character sequences *)

None == {}
Some(v) == {v}
The(opt) == CHOOSE v \in opt : TRUE

TAB == "\t"
NL == "\n"
\* str.strip() / str.split() whitespace, within the alphabet of the model
Whitespace == {" ", "\t", "\n"}
Digits == {"0", "1", "2", "3", "4", "5", "6", "7", "8", "9"}

\* ord(c) for the characters of the model's alphabet
ord(c) ==
    CASE c = "\t" -> 9   [] c = "\n" -> 10  [] c = " " -> 32  [] c = "+" -> 43
      [] c = "-" -> 45   [] c = "0" -> 48   [] c = "1" -> 49  [] c = "2" -> 50
      [] c = "3" -> 51   [] c = "4" -> 52   [] c = "5" -> 53  [] c = "6" -> 54
      [] c = "7" -> 55   [] c = "8" -> 56   [] c = "9" -> 57  [] c = "A" -> 65
      [] c = "B" -> 66   [] c = "C" -> 67   [] c = "D" -> 68  [] c = "E" -> 69
      [] c = "R" -> 82   [] c = "_" -> 95   [] c = "x" -> 120

RECURSIVE lstrip(_)
lstrip(s) ==
    IF s = <<>> THEN s
    ELSE IF Head(s) \in Whitespace THEN lstrip(Tail(s)) ELSE s

RECURSIVE rstrip(_)
rstrip(s) ==
    IF s = <<>> THEN s
    ELSE IF s[Len(s)] \in Whitespace THEN rstrip(SubSeq(s, 1, Len(s) - 1)) ELSE s

\* str.strip()
strip(s) == rstrip(lstrip(s))

\* index of the first character of s that is in set cs, or Len(s) + 1
first_in(s, cs) ==
    IF \E i \in 1..Len(s) : s[i] \in cs
    THEN CHOOSE i \in 1..Len(s) : s[i] \in cs /\ \A j \in 1..(i - 1) : s[j] \notin cs
    ELSE Len(s) + 1

\* str.split(): the maximal runs of non-whitespace characters
RECURSIVE split(_)
split(s) ==
    LET t == lstrip(s)
        k == first_in(t, Whitespace)
    IN  IF t = <<>> THEN <<>>
        ELSE <<SubSeq(t, 1, k - 1)>> \o split(SubSeq(t, k, Len(t)))

\* str.split(sep) for a one-character separator: every field, empty ones too
RECURSIVE split_on(_, _)
split_on(s, sep) ==
    LET k == first_in(s, {sep})
    IN  IF k > Len(s) THEN <<s>>
        ELSE <<SubSeq(s, 1, k - 1)>> \o split_on(SubSeq(s, k + 1, Len(s)), sep)

\* sep.join(words)
RECURSIVE join(_, _)
join(sep, words) ==
    IF words = <<>> THEN <<>>
    ELSE IF Len(words) = 1 THEN words[1]
    ELSE words[1] \o sep \o join(sep, Tail(words))

digit_val(c) == ord(c) - 48
digit_chr(d) == CHOOSE c \in Digits : ord(c) = 48 + d

\* str(n) for n >= 0
RECURSIVE nat_str(_)
nat_str(n) ==
    IF n < 10 THEN <<digit_chr(n)>> ELSE nat_str(n \div 10) \o <<digit_chr(n % 10)>>

\* str(n) / f"{n}" for an int
int_str(n) == IF n < 0 THEN <<"-">> \o nat_str(-n) ELSE nat_str(n)

\* the value of a digit string with "_" separators already validated
RECURSIVE digits_val(_)
digits_val(s) ==
    IF s = <<>> THEN 0
    ELSE IF s[Len(s)] = "_" THEN digits_val(SubSeq(s, 1, Len(s) - 1))
    ELSE 10 * digits_val(SubSeq(s, 1, Len(s) - 1)) + digit_val(s[Len(s)])

\* int(s): {} when int(s) raises ValueError, {n} otherwise.  int() strips
\* whitespace, takes an optional sign, then decimal digits in which single
\* underscores may separate digits.
int(s) ==
    LET t == strip(s)
        signed == t # <<>> /\ Head(t) \in {"-", "+"}
        body == IF signed THEN Tail(t) ELSE t
        ok == /\ body # <<>>
              /\ \A i \in 1..Len(body) : body[i] \in Digits \cup {"_"}
              /\ body[1] \in Digits
              /\ body[Len(body)] \in Digits
              /\ \A i \in 1..(Len(body) - 1) : ~(body[i] = "_" /\ body[i + 1] = "_")
    IN  IF ~ok THEN None
        ELSE IF signed /\ Head(t) = "-" THEN Some(-digits_val(body))
        ELSE Some(digits_val(body))

\* s < t for Python str: lexicographic by code point
RECURSIVE str_less(_, _)
str_less(s, t) ==
    IF t = <<>> THEN FALSE
    ELSE IF s = <<>> THEN TRUE
    ELSE IF Head(s) = Head(t) THEN str_less(Tail(s), Tail(t))
    ELSE ord(Head(s)) < ord(Head(t))

\* sorted(names)
RECURSIVE sorted(_)
sorted(names) ==
    IF names = {} THEN <<>>
    ELSE LET m == CHOOSE n \in names : \A o \in names \ {n} : str_less(n, o)
         IN  <<m>> \o sorted(names \ {m})

-----------------------------------------------------------------------------
(* Bookmark store: load_bookmarks, save_bookmarks *)

Bookmark(name, left, top, width, height) ==
    [name |-> name, left |-> left, top |-> top, width |-> width, height |-> height]

EmptyDict == [n \in {} |-> {}]

\* bookmarks[name] = value
dict_set(d, name, value) == (name :> value) @@ d

\* one iteration of the loop over the lines of the file
load_line(acc, raw) ==
    LET line == strip(raw)
        parts == split_on(line, TAB)
    IN  IF line = <<>> THEN acc
        ELSE IF Len(parts) # 5 THEN acc
        ELSE LET left == int(parts[2])
                 top == int(parts[3])
                 width == int(parts[4])
                 height == int(parts[5])
             IN  IF left = None \/ top = None \/ width = None \/ height = None
                 THEN acc
                 ELSE dict_set(acc, parts[1],
                               Bookmark(parts[1], The(left), The(top), The(width), The(height)))

RECURSIVE load_lines(_, _)
load_lines(acc, lines) ==
    IF lines = <<>> THEN acc
    ELSE load_lines(load_line(acc, Head(lines)), Tail(lines))

\* load_bookmarks() when BOOKMARKS_FILE is f: {} (no file) or {text}
load_bookmarks(f) ==
    IF f = None THEN EmptyDict
    ELSE load_lines(EmptyDict, split_on(The(f), NL))

\* the line written for one bookmark
bookmark_line(b) ==
    b.name \o <<TAB>> \o int_str(b.left) \o <<TAB>> \o int_str(b.top) \o <<TAB>>
        \o int_str(b.width) \o <<TAB>> \o int_str(b.height) \o <<NL>>

RECURSIVE write_lines(_, _)
write_lines(d, names) ==
    IF names = <<>> THEN <<>>
    ELSE bookmark_line(d[Head(names)]) \o write_lines(d, Tail(names))

\* the text save_bookmarks(d) leaves in BOOKMARKS_FILE
save_bookmarks(d) == write_lines(d, sorted(DOMAIN d))

-----------------------------------------------------------------------------
(* Capture -> OCR -> clipboard pipeline *)

\* postprocess_text(text) == " ".join(text.split())
postprocess_text(text) == join(<<" ">>, split(text))

\* run_meikiocr without the strip that decides the fallback: whitespace-only
\* output counts as output
run_meikiocr_unstripped(stdout, stderr) ==
    IF stdout = <<>> THEN postprocess_text(strip(stderr))
    ELSE postprocess_text(stdout)

\* run_meikiocr, given what the OCR process wrote on its two streams
run_meikiocr(stdout, stderr) ==
    LET output == strip(stdout)
    IN  IF output = <<>> THEN postprocess_text(strip(stderr))
        ELSE postprocess_text(output)

Region(left, top, width, height) ==
    [left |-> left, top |-> top, width |-> width, height |-> height]

\* What one call of ocr_and_copy did:
\*   args         the (left, top, width, height) it was called with
\*   env          the environment it ran in (see below)
\*   too_small    the "too small" error box was shown
\*   grabbed      the region capture_region was called with, if it was called
\*   temp_created the NamedTemporaryFile was created
\*   temp_left    that file still exists when the call ends
\*   ocr_invoked  subprocess.run was called
\*   copied       the text pyperclip.copy put on the clipboard, if it did
\*   raised       "none", or the step whose exception left ocr_and_copy
NoCall ==
    [args |-> None, env |-> None, too_small |-> FALSE, grabbed |-> None,
     temp_created |-> FALSE, temp_left |-> FALSE, ocr_invoked |-> FALSE,
     copied |-> None, raised |-> "none"]

\* a size check that rejects only a region too small in both dimensions
region_too_small_both(w, h) == w < MIN_SIZE_PX /\ h < MIN_SIZE_PX

\* the size check at the head of ocr_and_copy
region_too_small(w, h) == w < MIN_SIZE_PX \/ h < MIN_SIZE_PX

\* the temporary file after the try / finally around run_meikiocr: os.remove
\* is attempted on both the normal and the exceptional exit
after_finally(c, env) == [c EXCEPT !.temp_left = ~env.remove_ok]

\* The environment of one call: fail names the collaborator that raises
\* ("none", or "grab": mss / PIL in capture_region, "mktemp":
\* NamedTemporaryFile, "save": image.save, "launch": subprocess.run, "copy":
\* pyperclip.copy), remove_ok is whether os.remove succeeds, stdout / stderr
\* are the streams of an OCR process that ran.
ocr_and_copy(left, top, w, h, env) ==
    LET c0 == [NoCall EXCEPT !.args = Some(<<left, top, w, h>>), !.env = Some(env)]
        c1 == [c0 EXCEPT !.grabbed = Some(Region(left, top, w, h))]
        c2 == [c1 EXCEPT !.temp_created = TRUE, !.temp_left = TRUE]
        c3 == after_finally([c2 EXCEPT !.ocr_invoked = TRUE], env)
        text == run_meikiocr(env.stdout, env.stderr)
    IN  IF region_too_small(w, h) THEN [c0 EXCEPT !.too_small = TRUE]
        ELSE CASE env.fail = "grab" -> [c1 EXCEPT !.raised = "grab"]
               [] env.fail = "mktemp" -> [c1 EXCEPT !.raised = "mktemp"]
               [] env.fail = "save" -> [c2 EXCEPT !.raised = "save"]
               [] env.fail = "launch" -> [c3 EXCEPT !.raised = "launch"]
               [] env.fail = "copy" -> [c3 EXCEPT !.raised = "copy"]
               [] OTHER -> [c3 EXCEPT !.copied = Some(text)]

\* the clipboard after a call
clipboard_after(old, c) == IF c.copied # None THEN c.copied ELSE old

-----------------------------------------------------------------------------
(* Geometry *)

Rect(left, top, right, bottom) ==
    [left |-> left, top |-> top, right |-> right, bottom |-> bottom]

width(r) == r.right - r.left
height(r) == r.bottom - r.top

min(a, b) == IF a <= b THEN a ELSE b
max(a, b) == IF a >= b THEN a ELSE b
abs(a) == IF a < 0 THEN -a ELSE a

\* a normalization that orders the horizontal edges only
normalized_horizontal(r) ==
    Rect(min(r.left, r.right), r.top, max(r.left, r.right), r.bottom)

\* Rect.normalized
normalized(r) ==
    Rect(min(r.left, r.right), min(r.top, r.bottom),
         max(r.left, r.right), max(r.top, r.bottom))

\* a hit test that takes an edge for the whole line through it, not its span
_edge_hit_test_whole_line(sel, x, y) ==
    IF sel = None THEN "none"
    ELSE LET rect == normalized(The(sel))
         IN  IF abs(x - rect.left) <= EDGE_GRAB_PX THEN "left"
             ELSE IF abs(x - rect.right) <= EDGE_GRAB_PX THEN "right"
             ELSE IF abs(y - rect.top) <= EDGE_GRAB_PX THEN "top"
             ELSE IF abs(y - rect.bottom) <= EDGE_GRAB_PX THEN "bottom"
             ELSE IF rect.left <= x /\ x <= rect.right /\ rect.top <= y /\ y <= rect.bottom
             THEN "move"
             ELSE "none"

\* a hit test that knows the four edges but not the interior
_edge_hit_test_edges_only(sel, x, y) ==
    IF sel = None THEN "none"
    ELSE LET rect == normalized(The(sel))
         IN  IF abs(x - rect.left) <= EDGE_GRAB_PX /\ rect.top <= y /\ y <= rect.bottom
             THEN "left"
             ELSE IF abs(x - rect.right) <= EDGE_GRAB_PX /\ rect.top <= y /\ y <= rect.bottom
             THEN "right"
             ELSE IF abs(y - rect.top) <= EDGE_GRAB_PX /\ rect.left <= x /\ x <= rect.right
             THEN "top"
             ELSE IF abs(y - rect.bottom) <= EDGE_GRAB_PX /\ rect.left <= x /\ x <= rect.right
             THEN "bottom"
             ELSE "none"

\* SelectionUI._edge_hit_test with self.selection = sel; "none" is None
_edge_hit_test(sel, x, y) ==
    IF sel = None THEN "none"
    ELSE LET rect == normalized(The(sel))
         IN  IF abs(x - rect.left) <= EDGE_GRAB_PX /\ rect.top <= y /\ y <= rect.bottom
             THEN "left"
             ELSE IF abs(x - rect.right) <= EDGE_GRAB_PX /\ rect.top <= y /\ y <= rect.bottom
             THEN "right"
             ELSE IF abs(y - rect.top) <= EDGE_GRAB_PX /\ rect.left <= x /\ x <= rect.right
             THEN "top"
             ELSE IF abs(y - rect.bottom) <= EDGE_GRAB_PX /\ rect.left <= x /\ x <= rect.right
             THEN "bottom"
             ELSE IF rect.left <= x /\ x <= rect.right /\ rect.top <= y /\ y <= rect.bottom
             THEN "move"
             ELSE "none"

\* a drag in which a dragged edge stops at the opposite edge
drag_rect_clamped(rect, mode, start, x, y) ==
    CASE mode = "new" -> [rect EXCEPT !.right = x, !.bottom = y]
      [] mode = "move" ->
            Rect(rect.left + (x - start[1]), rect.top + (y - start[2]),
                 rect.right + (x - start[1]), rect.bottom + (y - start[2]))
      [] mode = "left" -> [rect EXCEPT !.left = IF x > rect.right THEN rect.right ELSE x]
      [] mode = "right" -> [rect EXCEPT !.right = IF x < rect.left THEN rect.left ELSE x]
      [] mode = "top" -> [rect EXCEPT !.top = IF y > rect.bottom THEN rect.bottom ELSE y]
      [] mode = "bottom" -> [rect EXCEPT !.bottom = IF y < rect.top THEN rect.top ELSE y]
      [] OTHER -> rect

\* a drag whose move puts the rectangle's top-left corner at the pointer
drag_rect_move_to_pointer(rect, mode, start, x, y) ==
    CASE mode = "new" -> [rect EXCEPT !.right = x, !.bottom = y]
      [] mode = "move" -> Rect(x, y, x + width(rect), y + height(rect))
      [] mode = "left" -> [rect EXCEPT !.left = x]
      [] mode = "right" -> [rect EXCEPT !.right = x]
      [] mode = "top" -> [rect EXCEPT !.top = y]
      [] mode = "bottom" -> [rect EXCEPT !.bottom = y]
      [] OTHER -> rect

\* the rectangle _on_mouse_drag leaves in self.selection
drag_rect(rect, mode, start, x, y) ==
    CASE mode = "new" -> [rect EXCEPT !.right = x, !.bottom = y]
      [] mode = "move" ->
            LET dx == x - start[1]
                dy == y - start[2]
            IN  Rect(rect.left + dx, rect.top + dy, rect.right + dx, rect.bottom + dy)
      [] mode = "left" -> [rect EXCEPT !.left = x]
      [] mode = "right" -> [rect EXCEPT !.right = x]
      [] mode = "top" -> [rect EXCEPT !.top = y]
      [] mode = "bottom" -> [rect EXCEPT !.bottom = y]
      [] OTHER -> rect

\* a size check that discards only a rectangle too small in both dimensions
selection_too_small_both(rect) == width(rect) < MIN_SIZE_PX /\ height(rect) < MIN_SIZE_PX

\* the size check of _on_mouse_up on the normalized rectangle
selection_too_small(rect) == width(rect) < MIN_SIZE_PX \/ height(rect) < MIN_SIZE_PX

\* a conversion that takes canvas coordinates for screen coordinates
_screen_coords_canvas(x, y) == <<x, y>>

\* SelectionUI._screen_coords
_screen_coords(x, y) == <<x + virtual_left, y + virtual_top>>

\* a seeding that takes screen coordinates for canvas coordinates
_region_to_canvas_rect_unshifted(region, left_offset, top_offset) ==
    Rect(region.left, region.top, region.left + region.width, region.top + region.height)

\* _region_to_canvas_rect with monitor origin (left_offset, top_offset)
_region_to_canvas_rect(region, left_offset, top_offset) ==
    Rect(region.left - left_offset, region.top - top_offset,
         (region.left + region.width) - left_offset,
         (region.top + region.height) - top_offset)

\* the Region _on_capture and _on_save_bookmark compute from self.selection
selected_region ==
    LET rect == normalized(The(selection))
        p == _screen_coords(rect.left, rect.top)
    IN  Region(p[1], p[2], width(rect), height(rect))

-----------------------------------------------------------------------------
(* The selection overlay: SelectionUI *)

other_vars == << typed_name, hit, store, norm, capture_region >>

\* SelectionUI.__init__: the state after construction with the given
\* initial_rect ({} or {Rect}), callback, monitor origin and bookmark file
SelectionUI(initial_rect, callback, left_offset, top_offset, f) ==
    /\ selection = IF initial_rect = None THEN None ELSE Some(normalized(The(initial_rect)))
    /\ drag_mode = "none"
    /\ start_point = None
    /\ bookmarks = load_bookmarks(f)
    /\ on_confirm = callback
    /\ virtual_left = left_offset
    /\ virtual_top = top_offset
    /\ root = "open"
    /\ emitted = <<>>
    /\ pressed = FALSE
    /\ file = f
    /\ call = NoCall
    /\ clipboard = None

\* <ButtonPress-1> at canvas point (x, y)
_on_mouse_down(x, y) ==
    /\ root = "open"
    /\ pressed' = TRUE
    /\ IF selection # None /\ _edge_hit_test(selection, x, y) # "none"
       THEN /\ drag_mode' = _edge_hit_test(selection, x, y)
            /\ start_point' = Some(<<x, y>>)
            /\ UNCHANGED selection
       ELSE /\ drag_mode' = "new"
            /\ start_point' = Some(<<x, y>>)
            /\ selection' = Some(Rect(x, y, x, y))
    /\ UNCHANGED << bookmarks, on_confirm, virtual_left, virtual_top, root, emitted,
                    file, call, clipboard, preview_region, prompt, other_vars >>

\* <B1-Motion> at canvas point (x, y)
_on_mouse_drag(x, y) ==
    /\ root = "open"
    /\ IF start_point = None \/ selection = None
       THEN UNCHANGED << selection, start_point >>
       ELSE /\ selection' = Some(drag_rect(The(selection), drag_mode, The(start_point), x, y))
            /\ start_point' = IF drag_mode = "move" THEN Some(<<x, y>>) ELSE start_point
    /\ UNCHANGED << drag_mode, pressed, bookmarks, on_confirm, virtual_left, virtual_top,
                    root, emitted, file, call, clipboard, preview_region, prompt, other_vars >>

\* a release that normalizes or discards the rectangle but leaves the drag
\* mode and the drag anchor of the gesture in place
_on_mouse_up_keeping_anchor ==
    /\ root = "open"
    /\ pressed' = FALSE
    /\ IF selection = None
       THEN UNCHANGED selection
       ELSE LET rect == normalized(The(selection))
            IN  selection' = IF selection_too_small(rect) THEN None ELSE Some(rect)
    /\ UNCHANGED << drag_mode, start_point, bookmarks, on_confirm, virtual_left, virtual_top,
                    root, emitted, file, call, clipboard, preview_region, prompt, other_vars >>

\* <ButtonRelease-1>
_on_mouse_up ==
    /\ root = "open"
    /\ pressed' = FALSE
    /\ IF selection = None
       THEN UNCHANGED << selection, drag_mode, start_point >>
       ELSE LET rect == normalized(The(selection))
            IN  IF selection_too_small(rect)
                THEN /\ selection' = None
                     /\ UNCHANGED << drag_mode, start_point >>
                ELSE /\ selection' = Some(rect)
                     /\ drag_mode' = "none"
                     /\ start_point' = None
    /\ UNCHANGED << bookmarks, on_confirm, virtual_left, virtual_top, root, emitted,
                    file, call, clipboard, preview_region, prompt, other_vars >>

\* a confirm that also saves the confirmed rectangle as a bookmark
_on_capture_resaving(env) ==
    /\ root = "open"
    /\ IF selection = None
       THEN UNCHANGED << root, emitted, call, clipboard, preview_region, bookmarks, file >>
       ELSE LET r == selected_region
                c == ocr_and_copy(r.left, r.top, r.width, r.height, env)
                d == dict_set(bookmarks, typed_name,
                              Bookmark(typed_name, r.left, r.top, r.width, r.height))
            IN  /\ bookmarks' = d
                /\ file' = Some(save_bookmarks(d))
                /\ IF on_confirm
                   THEN /\ emitted' = Append(emitted, r)
                        /\ preview_region' = Some(r)
                        /\ root' = "destroyed"
                        /\ UNCHANGED << call, clipboard >>
                   ELSE /\ call' = c
                        /\ clipboard' = clipboard_after(clipboard, c)
                        /\ root' = IF c.raised = "none" THEN "destroyed" ELSE "withdrawn"
                        /\ UNCHANGED << emitted, preview_region >>
    /\ UNCHANGED << selection, drag_mode, start_point, pressed, on_confirm,
                    virtual_left, virtual_top, prompt, other_vars >>

\* <Return>; env is the environment of the ocr_and_copy call it may make
_on_capture(env) ==
    /\ root = "open"
    /\ IF selection = None
       THEN UNCHANGED << root, emitted, call, clipboard, preview_region >>
       ELSE IF on_confirm
       THEN /\ emitted' = Append(emitted, selected_region)
            /\ preview_region' = Some(selected_region)
            /\ root' = "destroyed"
            /\ UNCHANGED << call, clipboard >>
       ELSE LET r == selected_region
                c == ocr_and_copy(r.left, r.top, r.width, r.height, env)
            IN  /\ call' = c
                /\ clipboard' = clipboard_after(clipboard, c)
                /\ root' = IF c.raised = "none" THEN "destroyed" ELSE "withdrawn"
                /\ UNCHANGED << emitted, preview_region >>
    /\ UNCHANGED << selection, drag_mode, start_point, pressed, bookmarks, on_confirm,
                    virtual_left, virtual_top, file, prompt, other_vars >>

\* <Key-s>, up to the name prompt: the handler tests self.selection and calls
\* simpledialog.askstring, which waits for the answer in an event loop of its
\* own, where the other handlers can run.  (One prompt at a time: a <Key-s>
\* handled while the prompt waits would open a second one.)
_on_save_bookmark ==
    /\ root = "open"
    /\ ~prompt
    /\ prompt' = (selection # None)
    /\ UNCHANGED << selection, drag_mode, start_point, pressed, bookmarks, on_confirm,
                    virtual_left, virtual_top, root, emitted, file, call, clipboard,
                    preview_region, other_vars >>

\* a continuation that keeps the normalized rectangle as the selection
_on_save_bookmark_answered_normalizing(answer) ==
    /\ prompt
    /\ prompt' = FALSE
    /\ IF answer = None \/ answer = Some(<<>>) \/ selection = None
       THEN UNCHANGED << bookmarks, file, selection >>
       ELSE LET name == The(answer)
                r == selected_region
                d == dict_set(bookmarks, name, Bookmark(name, r.left, r.top, r.width, r.height))
            IN  /\ bookmarks' = d
                /\ file' = Some(save_bookmarks(d))
                /\ selection' = Some(normalized(The(selection)))
    /\ UNCHANGED << drag_mode, start_point, pressed, on_confirm, virtual_left,
                    virtual_top, root, emitted, call, clipboard, preview_region, other_vars >>

\* the rest of _on_save_bookmark, from the return of askstring; answer is what
\* it returns: {} (dismissed) or {name}.  The handler runs on whatever the
\* state is by then, overlay destroyed or not; with a name and no selection
\* left, self.selection.normalized() raises AttributeError and nothing is saved.
_on_save_bookmark_answered(answer) ==
    /\ prompt
    /\ prompt' = FALSE
    /\ IF answer = None \/ answer = Some(<<>>)
       THEN UNCHANGED << bookmarks, file >>
       ELSE IF selection = None
       THEN UNCHANGED << bookmarks, file >>
       ELSE LET name == The(answer)
                r == selected_region
                d == dict_set(bookmarks, name, Bookmark(name, r.left, r.top, r.width, r.height))
            IN  /\ bookmarks' = d
                /\ file' = Some(save_bookmarks(d))
    /\ UNCHANGED << selection, drag_mode, start_point, pressed, on_confirm, virtual_left,
                    virtual_top, root, emitted, call, clipboard, preview_region, other_vars >>

\* a cancel that hands the rectangle, if there is one, to the callback
_on_cancel_emitting ==
    /\ root = "open"
    /\ root' = "destroyed"
    /\ emitted' = IF selection # None /\ on_confirm THEN Append(emitted, selected_region)
                  ELSE emitted
    /\ UNCHANGED << selection, drag_mode, start_point, pressed, bookmarks, on_confirm,
                    virtual_left, virtual_top, file, call, clipboard, preview_region,
                    prompt, other_vars >>

\* <Escape>
_on_cancel ==
    /\ root = "open"
    /\ root' = "destroyed"
    /\ UNCHANGED << selection, drag_mode, start_point, pressed, bookmarks, on_confirm,
                    virtual_left, virtual_top, emitted, file, call, clipboard, preview_region,
                    prompt, other_vars >>

-----------------------------------------------------------------------------
(* Environments *)

ERR == <<"E", "R", "R">>

\* the collaborator of ocr_and_copy that raises, if one does
Failures == {"none", "grab", "mktemp", "save", "launch", "copy"}

\* what the OCR process may write on a stream
OcrTexts ==
    { <<>>, <<" ">>, <<"\n">>, ERR, <<"A">>, <<"A", "\n">>, <<" ", "A", " ">>,
      <<"A", " ", "B">>, <<"A", "\n", "B">>, <<"A", " ", "\n", "\t", "B", "\n">>,
      <<"\n", "E", "R", "R", " ", " ", "A", "\n">> }

\* the environments of the one ocr_and_copy call a selection session can make
SessionEnvs == [fail : Failures, remove_ok : {TRUE}, stdout : {<<"A">>}, stderr : {ERR}]

\* monitor origins (sct.monitors[0]): a single display, and a virtual desktop
\* whose primary display has others to its left and above
Origins == {<<0, 0>>, <<-20, -10>>}

\* Pointer positions are drawn from a grid of canvas points whose pitch is
\* Pitch.  A move-drag can carry the rectangle off the grid without limit, so
\* the model stops following a drag whose rectangle would leave
\* [-MaxDrift, MaxPointer + MaxDrift] on either axis.
Pitch == 5
MaxPointer == 6 * Pitch
MaxDrift == 3 * Pitch

in_range(r, lo, hi) ==
    \A v \in {r.left, r.right, r.top, r.bottom} : lo <= v /\ v <= hi

\* _on_mouse_drag, followed while the rectangle stays within reach
pointer_move(x, y) ==
    /\ _on_mouse_drag(x, y)
    /\ selection' = None \/ in_range(The(selection'), -MaxDrift, MaxPointer + MaxDrift)

\* the state of the variables of a selection session when there is none
NoSession ==
    /\ selection = None
    /\ drag_mode = "none"
    /\ start_point = None
    /\ bookmarks = EmptyDict
    /\ on_confirm = FALSE
    /\ virtual_left = 0
    /\ virtual_top = 0
    /\ root = "absent"
    /\ emitted = <<>>
    /\ pressed = FALSE
    /\ preview_region = None

-----------------------------------------------------------------------------
(* SpecGesture: pointer gestures, confirm and cancel on a grid of points *)

GestureXs == {0, Pitch, 3 * Pitch, MaxPointer}
GestureYs == {0, 3 * Pitch, MaxPointer}

\* Rectangles (in canvas coordinates) of the Regions a session is seeded with:
\* ControlPanel.preview_region, or the bookmark of --adjust-bookmark
SeedRects == {Rect(0, 0, MaxPointer, MaxPointer), Rect(Pitch, 0, 3 * Pitch, 0)}

\* the Region whose canvas rectangle is r when the monitor origin is o
seed_region(r, o) == Region(r.left + o[1], r.top + o[2], width(r), height(r))

InitGesture ==
    /\ \E o \in Origins, callback \in BOOLEAN, seed \in {None} \cup {Some(r) : r \in SeedRects} :
          /\ SelectionUI(IF seed = None THEN None
                         ELSE Some(_region_to_canvas_rect(seed_region(The(seed), o),
                                                          o[1], o[2])),
                         callback, o[1], o[2], None)
          /\ preview_region = IF callback /\ seed # None
                              THEN Some(seed_region(The(seed), o)) ELSE None
    /\ typed_name = <<>>
    /\ hit = None
    /\ norm = None
    /\ prompt = FALSE
    /\ capture_region = None
    /\ store = None

NextGesture ==
    \/ \E x \in GestureXs, y \in GestureYs : _on_mouse_down(x, y)
    \/ \E x \in GestureXs, y \in GestureYs : pointer_move(x, y)
    \/ _on_mouse_up
    \/ \E env \in {e \in SessionEnvs : e.fail \in {"none", "launch"}} : _on_capture(env)
    \/ _on_cancel

SpecGesture == InitGesture /\ [][NextGesture]_vars

-----------------------------------------------------------------------------
(* Spec: a whole selection session, with the save-bookmark key *)

SessionPoints ==
    { <<0, 0>>, <<3 * Pitch, 3 * Pitch>>, <<MaxPointer, MaxPointer>> }

\* the names a user may give; in one session the user keeps to one of them
SessionNames == { <<"A">>, <<" ", "A">>, <<"B">> }

\* what askstring returns: dismissed, an empty name, or the name typed
SaveAnswers == {None, Some(<<>>), Some(typed_name)}

\* the bookmark file a session may find: the file an earlier session wrote on
\* saving its selection under the given name
StoredBookmark(name, o) == Bookmark(name, o[1], o[2], MaxPointer, MaxPointer)
StoredFile(name, o) ==
    Some(save_bookmarks(dict_set(EmptyDict, name, StoredBookmark(name, o))))

\* ControlPanel._select_region on a fresh panel (callback, no seed) with and
\* without a bookmark file, and main's --adjust-bookmark B (run_selection: no
\* callback, seeded by bookmark B)
InitSession ==
    /\ \/ \E f \in {None, StoredFile(<<" ", "A">>, <<0, 0>>)} : SelectionUI(None, TRUE, 0, 0, f)
       \/ \E o \in Origins \ {<<0, 0>>} :
             \/ SelectionUI(None, TRUE, o[1], o[2], StoredFile(<<"B">>, o))
             \/ LET b == load_bookmarks(StoredFile(<<"B">>, o))[<<"B">>]
                IN  SelectionUI(Some(_region_to_canvas_rect(
                                    Region(b.left, b.top, b.width, b.height), o[1], o[2])),
                                FALSE, o[1], o[2], StoredFile(<<"B">>, o))
    /\ preview_region = None
    /\ typed_name \in SessionNames
    /\ hit = None
    /\ norm = None
    /\ prompt = FALSE
    /\ capture_region = None
    /\ store = None

\* _on_mouse_drag, followed while the rectangle stays on the canvas points
session_move(x, y) ==
    /\ _on_mouse_drag(x, y)
    /\ selection' = None \/ in_range(The(selection'), 0, MaxPointer)

Next ==
    \/ \E p \in SessionPoints : _on_mouse_down(p[1], p[2])
    \/ \E p \in SessionPoints : session_move(p[1], p[2])
    \/ _on_mouse_up
    \/ \E env \in SessionEnvs : _on_capture(env)
    \/ _on_save_bookmark
    \/ \E answer \in SaveAnswers : _on_save_bookmark_answered(answer)
    \/ _on_cancel

Spec == InitSession /\ [][Next]_vars

-----------------------------------------------------------------------------
(* SpecOcr: the ways to ocr_and_copy without the overlay: main() with       *)
(* --bookmark NAME or --pick-bookmark, and the control panel's bookmark      *)
(* loading and capture buttons; at most one ocr_and_copy call per behaviour  *)

OcrSizes == {0, MIN_SIZE_PX - 1, MIN_SIZE_PX, 4 * MIN_SIZE_PX}

OcrErrTexts == { <<>>, <<"\n">>, ERR, <<" ", "E", "R", "R", "\n", "A", "\n">> }

\* the names given with --bookmark or chosen in the picker
OcrNames == { <<"A">>, <<"B">> }

\* the bookmark file: absent, empty, holding only B, holding A and B, or
\* holding a bookmark A that an earlier session saved
OcrFiles ==
    {None, Some(<<>>),
     Some(save_bookmarks(dict_set(EmptyDict, <<"B">>, Bookmark(<<"B">>, 0, 0, 4 * MIN_SIZE_PX, 4 * MIN_SIZE_PX)))),
     Some(save_bookmarks(dict_set(dict_set(EmptyDict, <<"A">>, Bookmark(<<"A">>, -20, -10, MIN_SIZE_PX, 4 * MIN_SIZE_PX)),
                                  <<"B">>, Bookmark(<<"B">>, 0, 0, 4 * MIN_SIZE_PX, 4 * MIN_SIZE_PX))))}
    \cup {Some(save_bookmarks(dict_set(EmptyDict, <<"A">>, Bookmark(<<"A">>, o[1], o[2], w, h)))) :
            o \in Origins, w \in OcrSizes, h \in OcrSizes}

OcrCallEnvs ==
    [fail : Failures, remove_ok : BOOLEAN, stdout : OcrTexts, stderr : OcrErrTexts]

\* what the user does in the BookmarkPicker: closes it, or selects a name
PickerChoices == {None} \cup {Some(n) : n \in OcrNames}

InitOcr ==
    /\ NoSession
    /\ file \in OcrFiles
    /\ call = NoCall
    /\ clipboard = None
    /\ typed_name = <<>>
    /\ hit = None
    /\ norm = None
    /\ prompt = FALSE
    /\ capture_region = None
    /\ store = None

\* main() with --bookmark name: the bookmark is looked up in the file; when
\* it is not there an error box is shown and no ocr_and_copy call is made
main_bookmark(name, env) ==
    /\ call = NoCall
    /\ LET stored == load_bookmarks(file)
       IN  IF name \notin DOMAIN stored
           THEN UNCHANGED << call, clipboard >>
           ELSE LET b == stored[name]
                IN  /\ call' = ocr_and_copy(b.left, b.top, b.width, b.height, env)
                    /\ clipboard' = clipboard_after(clipboard, call')
    /\ UNCHANGED << selection, drag_mode, start_point, bookmarks, on_confirm, virtual_left,
                    virtual_top, root, emitted, pressed, file, preview_region, prompt, other_vars >>

\* pick_bookmark: {} when no bookmark is stored (error box) or the picker is
\* closed without a selection, else the Bookmark selected; a name can be
\* selected only if the picker lists it
pick_bookmark(choice) ==
    LET stored == load_bookmarks(file)
    IN  IF choice = None \/ The(choice) \notin DOMAIN stored THEN None
        ELSE Some(stored[The(choice)])

\* main() with --pick-bookmark
run_picker_and_capture(choice, env) ==
    /\ call = NoCall
    /\ LET bookmark == pick_bookmark(choice)
       IN  IF bookmark = None
           THEN UNCHANGED << call, clipboard >>
           ELSE LET b == The(bookmark)
                IN  /\ call' = ocr_and_copy(b.left, b.top, b.width, b.height, env)
                    /\ clipboard' = clipboard_after(clipboard, call')
    /\ UNCHANGED << selection, drag_mode, start_point, bookmarks, on_confirm, virtual_left,
                    virtual_top, root, emitted, pressed, file, preview_region, prompt, other_vars >>

\* ControlPanel._load_bookmark
_load_bookmark(choice) ==
    /\ root = "absent"
    /\ LET bookmark == pick_bookmark(choice)
       IN  IF bookmark = None
           THEN UNCHANGED preview_region
           ELSE LET b == The(bookmark)
                IN  preview_region' = Some(Region(b.left, b.top, b.width, b.height))
    /\ UNCHANGED << selection, drag_mode, start_point, bookmarks, on_confirm, virtual_left,
                    virtual_top, root, emitted, pressed, file, call, clipboard, prompt,
                    other_vars >>

\* ControlPanel._set_capture_region
_set_capture_region ==
    /\ root = "absent"
    /\ IF preview_region = None
       THEN UNCHANGED capture_region
       ELSE LET r == The(preview_region)
            IN  capture_region' = Some(Region(r.left, r.top, r.width, r.height))
    /\ UNCHANGED << selection, drag_mode, start_point, bookmarks, on_confirm, virtual_left,
                    virtual_top, root, emitted, pressed, file, call, clipboard, preview_region,
                    prompt, typed_name, hit, store, norm >>

\* ControlPanel._capture_and_copy
_capture_and_copy(env) ==
    /\ root = "absent"
    /\ call = NoCall
    /\ IF capture_region = None
       THEN UNCHANGED << call, clipboard >>
       ELSE LET r == The(capture_region)
            IN  /\ call' = ocr_and_copy(r.left, r.top, r.width, r.height, env)
                /\ clipboard' = clipboard_after(clipboard, call')
    /\ UNCHANGED << selection, drag_mode, start_point, bookmarks, on_confirm, virtual_left,
                    virtual_top, root, emitted, pressed, file, preview_region, prompt, other_vars >>

NextOcr ==
    \/ /\ call = NoCall
       /\ \E name \in OcrNames, env \in OcrCallEnvs : main_bookmark(name, env)
    \/ /\ call = NoCall
       /\ \E choice \in PickerChoices, env \in OcrCallEnvs : run_picker_and_capture(choice, env)
    \/ \E choice \in PickerChoices : _load_bookmark(choice)
    \/ _set_capture_region
    \/ /\ call = NoCall
       /\ \E env \in OcrCallEnvs : _capture_and_copy(env)

SpecOcr == InitOcr /\ [][NextOcr]_vars

-----------------------------------------------------------------------------
(* SpecHit: _edge_hit_test on every point around a rectangle *)

HitMargin == 10
HitEdges == {0, EDGE_GRAB_PX + 4, 3 * EDGE_GRAB_PX}
HitCoords == (-HitMargin)..(3 * EDGE_GRAB_PX + HitMargin)

InitHit ==
    /\ NoSession
    /\ file = None
    /\ call = NoCall
    /\ clipboard = None
    /\ typed_name = <<>>
    /\ hit = None
    /\ norm = None
    /\ prompt = FALSE
    /\ capture_region = None
    /\ store = None

\* the hit test _on_mouse_down makes at (x, y) when self.selection is rect
hit_test(rect, x, y) ==
    /\ hit = None
    /\ hit' = Some([rect |-> rect, x |-> x, y |-> y, result |-> _edge_hit_test(Some(rect), x, y)])
    /\ UNCHANGED << selection, drag_mode, start_point, bookmarks, on_confirm, virtual_left,
                    virtual_top, root, emitted, pressed, file, call, clipboard, typed_name,
                    store, preview_region, norm, prompt, capture_region >>

NextHit ==
    /\ hit = None
    /\ \E l \in HitEdges, r \in HitEdges, t \in {0, 3 * EDGE_GRAB_PX}, b \in {0, 3 * EDGE_GRAB_PX},
          x \in HitCoords, y \in HitCoords :
           hit_test(Rect(l, t, r, b), x, y)

SpecHit == InitHit /\ [][NextHit]_vars

-----------------------------------------------------------------------------
(* SpecStore: the bookmark file written by save_bookmarks and read by load_bookmarks *)

\* lines a bookmark file may hold (without the line break)
LineA == <<"A", "\t", "0", "\t", "0", "\t", "5", "0", "\t", "5", "0">>
LineB == <<"B", "\t", "1", "0", "\t", "1", "0", "\t", "2", "0", "\t", "2", "0">>
LineA2 == <<"A", "\t", "-", "7", "\t", "3", "\t", "1", "2", "\t", "9">>
LineBad == <<"B", "A", "D", " ", "x", "x", "x", "E">>
StoreLines ==
    { LineA, LineB, LineA2, LineBad,
      <<"C", "\t", "x", "\t", "0", "\t", "1", "\t", "1">>,
      <<"A", "\t", "1", "\t", "2", "\t", "3", "\t", "4", "\t", "5">>,
      <<"D", "\t", "1", "\t", "2", "\t", "3", "\t", "4", "\t">>,
      <<" ", "D", "\t", "1", "\t", "2", "\t", "3", "\t", "5">>,
      <<"E", "\t", " ", "1", "\t", "+", "2", "\t", "1", "_", "0", "\t", "4">>,
      <<>> }

MaxLines == 3

\* the files with at most MaxLines lines, separated by line breaks
StoreFiles ==
    {None} \cup {Some(join(<<NL>>, ls)) : ls \in UNION {[1..n -> StoreLines] : n \in 1..MaxLines}}

\* names the name prompt, which accepts any non-empty string, can return
StoreNames == { <<"A">>, <<"B">>, <<"A", " ">>, <<" ", "A">>, <<"A", "\t", "B">>, <<" ">> }

\* the dicts a session can hold: keys are names, the Bookmark under a key carries it
StoreRegions == {Region(-20, 0, 130, 7), Region(0, 7, 0, 20)}
StoreDicts ==
    UNION { [ns -> StoreRegions] : ns \in {ns \in SUBSET StoreNames : Cardinality(ns) <= 2} }

as_bookmarks(d) ==
    [n \in DOMAIN d |-> Bookmark(n, d[n].left, d[n].top, d[n].width, d[n].height)]

InitStore ==
    /\ NoSession
    /\ file \in StoreFiles
    /\ call = NoCall
    /\ clipboard = None
    /\ typed_name = <<>>
    /\ hit = None
    /\ norm = None
    /\ prompt = FALSE
    /\ capture_region = None
    /\ store = [op |-> "none", d |-> EmptyDict, saved |-> None]

\* the dicts given to save_bookmarks, each with the text it writes
StoreSaves ==
    {[d |-> as_bookmarks(d), text |-> save_bookmarks(as_bookmarks(d))] : d \in StoreDicts}

\* a call of save_bookmarks(s.d), which truncates the file and writes s.text
store_save(s) ==
    /\ file' = Some(s.text)
    /\ store' = [op |-> "save", d |-> s.d, saved |-> Some(s.d)]
    /\ UNCHANGED << selection, drag_mode, start_point, bookmarks, on_confirm, virtual_left,
                    virtual_top, root, emitted, pressed, call, clipboard, typed_name, hit,
                    preview_region, norm, prompt, capture_region >>

\* a call of load_bookmarks()
store_load ==
    /\ store' = [op |-> "load", d |-> load_bookmarks(file), saved |-> store.saved]
    /\ UNCHANGED << selection, drag_mode, start_point, bookmarks, on_confirm, virtual_left,
                    virtual_top, root, emitted, pressed, file, call, clipboard, typed_name,
                    hit, preview_region, norm, prompt, capture_region >>

NextStore ==
    \/ \E s \in StoreSaves : store_save(s)
    \/ store_load

SpecStore == InitStore /\ [][NextStore]_vars

-----------------------------------------------------------------------------
(* SpecRect: Rect.normalized on rectangles given by any two corner points *)

MaxCoord == 3
RectCoords == (-MaxCoord)..MaxCoord

InitRect ==
    /\ NoSession
    /\ file = None
    /\ call = NoCall
    /\ clipboard = None
    /\ typed_name = <<>>
    /\ hit = None
    /\ norm = None
    /\ prompt = FALSE
    /\ capture_region = None
    /\ store = None

\* result = r.normalized(): the method builds a new Rect and assigns no field
\* of self, so the object holds afterwards (self) what it held before (arg)
normalized_call(r) ==
    /\ norm = None
    /\ norm' = Some([arg |-> r, self |-> r, result |-> normalized(r)])
    /\ UNCHANGED << selection, drag_mode, start_point, bookmarks, on_confirm, virtual_left,
                    virtual_top, root, emitted, pressed, file, call, clipboard, typed_name,
                    hit, store, preview_region, prompt, capture_region >>

NextRect ==
    /\ norm = None
    /\ \E l \in RectCoords, t \in RectCoords, r \in RectCoords, b \in RectCoords :
          normalized_call(Rect(l, t, r, b))

SpecRect == InitRect /\ [][NextRect]_vars

-----------------------------------------------------------------------------
(* SpecSeed: ControlPanel._select_region with a preview region already set: *)
(* the overlay is seeded with it, and the user confirms or cancels at once  *)

SeedCorners == {-5 * Pitch, 0, Pitch}
SeedSizes == {0, 1, MIN_SIZE_PX, MaxPointer}
SeedRegions ==
    {Region(l, t, w, h) : l \in SeedCorners, t \in SeedCorners, w \in SeedSizes, h \in SeedSizes}

InitSeed ==
    /\ \E o \in Origins, region \in SeedRegions :
          /\ SelectionUI(Some(_region_to_canvas_rect(region, o[1], o[2])), TRUE, o[1], o[2], None)
          /\ preview_region = Some(region)
    /\ typed_name = <<>>
    /\ hit = None
    /\ norm = None
    /\ prompt = FALSE
    /\ capture_region = None
    /\ store = None

NextSeed ==
    \/ \E env \in SessionEnvs : _on_capture(env)
    \/ _on_cancel

SpecSeed == InitSeed /\ [][NextSeed]_vars

-----------------------------------------------------------------------------
(* Claims *)

Edges == {"left", "right", "top", "bottom"}

\* C1 (as claimed; checked under Spec): every Region handed to on_confirm on
\* the confirm key is at least MIN_SIZE_PX wide and MIN_SIZE_PX high.
C1_EmittedRegionAtLeastMinSize ==
    \A i \in 1..Len(emitted) :
        emitted[i].width >= MIN_SIZE_PX /\ emitted[i].height >= MIN_SIZE_PX

\* the edge of rectangle r that drag mode m names
edge_of(r, m) ==
    CASE m = "left" -> r.left [] m = "right" -> r.right
      [] m = "top" -> r.top [] m = "bottom" -> r.bottom

\* the pointer coordinate that drag mode m follows
coord_of(m, x, y) == IF m \in {"left", "right"} THEN x ELSE y

\* C2 (checked under SpecGesture): while an edge drag is in progress, a
\* pointer-move to (x, y) sets the dragged edge to the pointer's coordinate on
\* that axis and leaves the other three edges unchanged, wherever the pointer
\* is; and the rectangle (0,0)-(100,80) grabbed at (100,40) and dragged to
\* (130,40) becomes (0,0)-(130,80).
C2_EdgeDragSetsExactlyThatEdge ==
    [][ /\ \A x \in GestureXs, y \in GestureYs :
              (selection # None /\ drag_mode \in Edges /\ _on_mouse_drag(x, y))
                  => /\ selection' # None
                     /\ edge_of(The(selection'), drag_mode) = coord_of(drag_mode, x, y)
                     /\ \A m \in Edges \ {drag_mode} :
                            edge_of(The(selection'), m) = edge_of(The(selection), m)
                     /\ drag_mode' = drag_mode
        /\ LET r == Rect(0, 0, 100, 80)
               m == _edge_hit_test(Some(r), 100, 40)
           IN  m = "right" /\ drag_rect(r, m, <<100, 40>>, 130, 40) = Rect(0, 0, 130, 80)
      ]_vars

\* C2 witness: a right-edge drag that has carried the right edge past the left edge
C2_Witness_EdgeDraggedPastOpposite ==
    /\ root = "open"
    /\ pressed
    /\ drag_mode = "right"
    /\ selection # None
    /\ The(selection).right < The(selection).left

\* C3 (checked under SpecHit): with r the normalized rectangle and margin
\* EDGE_GRAB_PX, _edge_hit_test answers "move" for a point strictly inside r
\* and farther than the margin from all four edges; the edge's name for a point
\* within the margin of exactly one edge and within that edge's span; no hit
\* for a point outside r and farther than the margin from every edge; and it
\* never answers an edge for a point outside that edge's span or margin.
C3_HitTestClassifies ==
    hit # None =>
        LET h == The(hit)
            r == normalized(h.rect)
            near(m) == abs(coord_of(m, h.x, h.y) - edge_of(r, m)) <= EDGE_GRAB_PX
            in_span(m) == IF m \in {"left", "right"}
                          THEN r.top <= h.y /\ h.y <= r.bottom
                          ELSE r.left <= h.x /\ h.x <= r.right
            inside == r.left <= h.x /\ h.x <= r.right /\ r.top <= h.y /\ h.y <= r.bottom
            strictly_inside == r.left < h.x /\ h.x < r.right /\ r.top < h.y /\ h.y < r.bottom
        IN  /\ (strictly_inside /\ \A m \in Edges : ~near(m)) => h.result = "move"
            /\ \A m \in Edges :
                  (near(m) /\ in_span(m) /\ \A o \in Edges \ {m} : ~near(o)) => h.result = m
            /\ (~inside /\ \A m \in Edges : ~near(m)) => h.result = "none"
            /\ \A m \in Edges : h.result = m => (near(m) /\ in_span(m))

\* C3 witness: a point within the margin of the top and right edges but outside
\* the span of both, which is no hit
C3_Witness_NearEdgeOutsideSpan ==
    /\ hit # None
    /\ LET h == The(hit)
           r == normalized(h.rect)
       IN  /\ width(r) > 2 * EDGE_GRAB_PX
           /\ h.x > r.right /\ h.x - r.right <= EDGE_GRAB_PX
           /\ h.y < r.top /\ r.top - h.y <= EDGE_GRAB_PX
           /\ h.result = "none"

\* C4 (as claimed; checked under SpecStore): loading the file that
\* save_bookmarks wrote yields the dict that was saved: the same names, each
\* with the same left, top, width and height.
C4_SaveThenLoadIsIdentity ==
    (store.op = "load" /\ store.saved # None) => store.d = The(store.saved)

\* C5 (as claimed; checked under SpecOcr): when ocr_and_copy ends, by return
\* or by exception, the temporary file it created is gone (granted that
\* os.remove, where it is called, succeeds).
C5_TempFileRemovedOnEveryPath ==
    (call.temp_created /\ The(call.env).remove_ok) => ~call.temp_left

\* C6 (as claimed; checked under SpecOcr): when the OCR process cannot be
\* launched, or runs and writes nothing on either stream, ocr_and_copy does not
\* abort and puts the empty string on the clipboard.
C6_OcrFailureCopiesEmptyText ==
    (/\ call.args # None
     /\ ~call.too_small
     /\ \/ The(call.env).fail = "launch"
        \/ /\ The(call.env).fail = "none"
           /\ The(call.env).stdout = <<>>
           /\ The(call.env).stderr = <<>>)
        => (call.raised = "none" /\ call.copied = Some(<<>>) /\ clipboard = Some(<<>>))

\* C7 (checked under SpecOcr): ocr_and_copy with width or height below
\* MIN_SIZE_PX shows the too-small error and does nothing else (no capture, no
\* temporary file, no OCR process, no clipboard write, no exception); with
\* both at least MIN_SIZE_PX it does not reject and goes on to the capture.
C7_TooSmallAbortsBeforeAnyEffect ==
    call.args # None =>
        LET w == The(call.args)[3]
            h == The(call.args)[4]
        IN  /\ (w < MIN_SIZE_PX \/ h < MIN_SIZE_PX) =>
                  /\ call.too_small
                  /\ call.grabbed = None
                  /\ ~call.temp_created
                  /\ ~call.temp_left
                  /\ ~call.ocr_invoked
                  /\ call.copied = None
                  /\ clipboard = None
                  /\ call.raised = "none"
            /\ (w >= MIN_SIZE_PX /\ h >= MIN_SIZE_PX) =>
                  /\ ~call.too_small
                  /\ call.grabbed = Some(Region(The(call.args)[1], The(call.args)[2], w, h))

\* C7 witness: a call rejected for its height alone
C7_Witness_RejectedForHeight ==
    /\ call.too_small
    /\ The(call.args)[3] >= MIN_SIZE_PX
    /\ The(call.args)[4] = MIN_SIZE_PX - 1

\* whitespace normalization, character by character: leading whitespace is
\* dropped, a whitespace run between two words becomes one space, trailing
\* whitespace is dropped
RECURSIVE squeeze(_, _)
squeeze(s, started) ==
    IF s = <<>> THEN <<>>
    ELSE IF Head(s) \notin Whitespace THEN <<Head(s)>> \o squeeze(Tail(s), TRUE)
    ELSE IF /\ started
            /\ Tail(s) # <<>>
            /\ Head(Tail(s)) \notin Whitespace
         THEN <<" ">> \o squeeze(Tail(s), TRUE)
         ELSE squeeze(Tail(s), started)

has_text(s) == \E i \in 1..Len(s) : s[i] \notin Whitespace

\* C8 (checked under SpecOcr): the text put on the clipboard is the
\* whitespace-normalized standard output when that holds a non-whitespace
\* character, and the whitespace-normalized standard error otherwise; empty
\* output with error "ERR" gives "ERR".
C8_ClipboardIsNormalizedOutputOrError ==
    call.copied # None =>
        LET env == The(call.env)
        IN  /\ call.copied = Some(IF has_text(env.stdout)
                                  THEN squeeze(env.stdout, FALSE)
                                  ELSE squeeze(env.stderr, FALSE))
            /\ clipboard = call.copied
            /\ (env.stdout = <<>> /\ env.stderr = ERR) => call.copied = Some(ERR)

\* C8 witness: whitespace-only output, so the error stream, itself with
\* whitespace runs, is what is copied
C8_Witness_FallbackToStderr ==
    /\ call.copied # None
    /\ The(call.env).stdout = <<"\n">>
    /\ The(call.env).stderr = <<" ", "E", "R", "R", "\n", "A", "\n">>
    /\ call.copied = Some(<<"E", "R", "R", " ", "A">>)

\* the lines of a file's text
file_lines(f) == IF f = None THEN <<>> ELSE split_on(The(f), NL)

\* a line with exactly 5 tab-separated fields of which the last four are integers
well_formed(line) ==
    LET parts == split_on(line, TAB)
    IN  /\ Len(parts) = 5
        /\ \A k \in 2..5 : int(parts[k]) # None

\* the Bookmark a well-formed line stands for
line_bookmark(line) ==
    LET parts == split_on(line, TAB)
    IN  Bookmark(parts[1], The(int(parts[2])), The(int(parts[3])), The(int(parts[4])),
                 The(int(parts[5])))

\* the dict holding, for each name of a well-formed line, the bookmark of the
\* last well-formed line with that name
last_wins(lines) ==
    LET good == {i \in 1..Len(lines) : well_formed(lines[i])}
        names == {line_bookmark(lines[i]).name : i \in good}
        last(n) == CHOOSE i \in good :
                      /\ line_bookmark(lines[i]).name = n
                      /\ \A j \in good : line_bookmark(lines[j]).name = n => j <= i
    IN  [n \in names |-> line_bookmark(lines[last(n)])]

\* C9 (as claimed; checked under SpecStore): load_bookmarks skips every line
\* that does not have exactly 5 tab-separated fields with four integers, and
\* keeps every line that does; the last such line wins for a repeated name.
C9_LoadKeepsWellFormedLines ==
    store.op = "load" => store.d = last_wins(file_lines(file))

\* the non-empty lines of the bookmark file, split at tabs
file_records(f) ==
    LET lines == SelectSeq(file_lines(f), LAMBDA l : l # <<>>)
    IN  [i \in 1..Len(lines) |-> split_on(lines[i], TAB)]

\* the Region a record of the bookmark file holds
record_region(rec) ==
    Region(The(int(rec[2])), The(int(rec[3])), The(int(rec[4])), The(int(rec[5])))

\* C10 (as claimed; checked under Spec): whenever a session writes the bookmark
\* file, the file then holds 5-field records in strictly ascending order of
\* name (so one record per name), the record of the name just saved carries
\* the selected rectangle, every record the file held under another name is
\* still there unchanged, and there is no other record.
C10_FileHoldsOneRecordPerName ==
    [][ file' # file =>
          LET old == file_records(file)
              new == file_records(file')
          IN  /\ \A i \in 1..Len(new) : Len(new[i]) = 5
              /\ \A i \in 1..(Len(new) - 1) : str_less(new[i][1], new[i + 1][1])
              /\ \E i \in 1..Len(new) :
                    new[i][1] = typed_name /\ record_region(new[i]) = selected_region
              /\ \A j \in 1..Len(old) :
                    old[j][1] # typed_name => \E i \in 1..Len(new) : new[i] = old[j]
              /\ \A i \in 1..Len(new) :
                    new[i][1] # typed_name => \E j \in 1..Len(old) : old[j] = new[i]
      ]_vars

\* the smaller and the larger of two integers, by cases
lesser(a, b) == IF a <= b THEN a ELSE b
greater(a, b) == IF a <= b THEN b ELSE a

\* C11 (checked under SpecRect): r.normalized() has left = min(left, right),
\* right = max(left, right), top = min(top, bottom), bottom = max(top, bottom);
\* normalizing its result changes nothing; the rectangle given by the same two
\* corner points in the other order normalizes to the same result; the result
\* has width >= 0 and height >= 0; and r itself is as it was before the call.
C11_NormalizedOrdersTheEdges ==
    norm # None =>
        LET n == The(norm)
            r == n.arg
            res == n.result
        IN  /\ res.left = lesser(r.left, r.right)
            /\ res.right = greater(r.left, r.right)
            /\ res.top = lesser(r.top, r.bottom)
            /\ res.bottom = greater(r.top, r.bottom)
            /\ normalized(res) = res
            /\ normalized(Rect(r.right, r.bottom, r.left, r.top)) = res
            /\ width(res) >= 0
            /\ height(res) >= 0
            /\ n.self = r

\* C11 witness: a rectangle whose corner points are reversed on both axes has
\* been normalized
C11_Witness_BothAxesReversed ==
    /\ norm # None
    /\ The(norm).arg.right < The(norm).arg.left
    /\ The(norm).arg.bottom < The(norm).arg.top
    /\ The(norm).result # The(norm).arg

\* the extent of a rectangle along each axis, whichever way its edges are ordered
span_x(r) == abs(r.right - r.left)
span_y(r) == abs(r.bottom - r.top)

\* C12 (checked under SpecGesture): after a pointer-up the engine holds no
\* rectangle or a rectangle with left <= right, top <= bottom, width >= 10 and
\* height >= 10.  A rectangle held before the pointer-up is discarded exactly
\* when its extent on some axis is below 10 (as for a draw from (5,5) to
\* (8,7)) and is otherwise kept with its edges put in order, also when an edge
\* was dragged past the opposite one; nothing is restored after a discard.
C12_PointerUpKeepsLargeNormalizedOrNothing ==
    [][ /\ _on_mouse_up =>
              /\ selection' # None =>
                    LET r == The(selection')
                    IN  /\ r.left <= r.right /\ r.top <= r.bottom
                        /\ r.right - r.left >= MIN_SIZE_PX
                        /\ r.bottom - r.top >= MIN_SIZE_PX
              /\ selection = None => selection' = None
              /\ selection # None =>
                    LET o == The(selection)
                    IN  IF span_x(o) < MIN_SIZE_PX \/ span_y(o) < MIN_SIZE_PX
                        THEN selection' = None
                        ELSE /\ selection' # None
                             /\ {The(selection').left, The(selection').right} = {o.left, o.right}
                             /\ {The(selection').top, The(selection').bottom} = {o.top, o.bottom}
        /\ selection_too_small(normalized(Rect(5, 5, 8, 7)))
      ]_vars

\* C12 witness: a right-edge drag that a pointer-up ended by discarding the rectangle
C12_Witness_EdgeDragDiscarded ==
    /\ root = "open"
    /\ ~pressed
    /\ selection = None
    /\ drag_mode = "right"

\* rectangle r with the point p subtracted from its corners
relative_to(r, p) == Rect(r.left - p[1], r.top - p[2], r.right - p[1], r.bottom - p[2])

\* C13 (checked under SpecGesture): a pointer-down that starts a move drag
\* leaves the rectangle as it is and takes the pointer as the drag anchor; each
\* pointer-move of a move drag shifts all four edges by the pointer's
\* displacement from the anchor and takes the pointer as the new anchor.  So
\* the rectangle relative to the anchor is the same throughout the gesture:
\* the rectangle is the one at pointer-down translated by (last pointer
\* position - pointer-down position), with the same width and height.
C13_MoveDragTranslatesByPointerDelta ==
    [][ drag_mode' = "move" => \A x \in GestureXs, y \in GestureYs :
          /\ _on_mouse_down(x, y) =>
                /\ selection' = selection
                /\ start_point' = Some(<<x, y>>)
          /\ (/\ drag_mode = "move"
              /\ selection # None
              /\ start_point # None
              /\ _on_mouse_drag(x, y)) =>
                LET dx == x - The(start_point)[1]
                    dy == y - The(start_point)[2]
                    r == The(selection)
                IN  /\ selection' = Some(Rect(r.left + dx, r.top + dy, r.right + dx, r.bottom + dy))
                    /\ start_point' = Some(<<x, y>>)
                    /\ relative_to(The(selection'), The(start_point'))
                          = relative_to(r, The(start_point))
                    /\ width(The(selection')) = width(r)
                    /\ height(The(selection')) = height(r)
                    /\ drag_mode' = "move"
      ]_vars

\* C13 witness: a move drag has carried the rectangle's left edge off the canvas
C13_Witness_MovedOffCanvas ==
    /\ root = "open"
    /\ pressed
    /\ drag_mode = "move"
    /\ selection # None
    /\ The(selection).left < 0
    /\ width(The(selection)) >= MIN_SIZE_PX

\* the point (x, y) is inside rectangle r (edges in order), or within the edge
\* margin of one of r's edges and within that edge's span
grabs(r, x, y) ==
    \/ r.left <= x /\ x <= r.right /\ r.top <= y /\ y <= r.bottom
    \/ \E m \in Edges :
          /\ abs(coord_of(m, x, y) - edge_of(r, m)) <= EDGE_GRAB_PX
          /\ IF m \in {"left", "right"} THEN r.top <= y /\ y <= r.bottom
                                        ELSE r.left <= x /\ x <= r.right

\* C14 (checked under SpecGesture): a pointer-down at (x, y) while a rectangle
\* exists and the point is inside it, or within the margin of one of its edges
\* within that edge's span, enters the adjusting mode the hit test returns
\* ("move" or an edge) and leaves the rectangle unchanged; any other
\* pointer-down, and every pointer-down with no rectangle, leaves the
\* degenerate rectangle (x, y, x, y) with drag mode "new".
C14_PointerDownAdjustsOrStartsNew ==
    [][ pressed' => \A x \in GestureXs, y \in GestureYs :
          (start_point' = Some(<<x, y>>) /\ _on_mouse_down(x, y)) =>
              IF selection # None /\ grabs(normalized(The(selection)), x, y)
              THEN /\ drag_mode' = _edge_hit_test(selection, x, y)
                   /\ drag_mode' \in Edges \cup {"move"}
                   /\ selection' = selection
              ELSE /\ drag_mode' = "new"
                   /\ selection' = Some(Rect(x, y, x, y))
      ]_vars

\* C14 witness: in a session seeded with a rectangle, a pointer-down away from
\* every rectangle the session has held has started a new one
C14_Witness_NewRectangleInSeededSession ==
    /\ root = "open"
    /\ pressed
    /\ preview_region # None
    /\ drag_mode = "new"
    /\ selection = Some(Rect(MaxPointer, MaxPointer, MaxPointer, MaxPointer))
    /\ start_point = Some(<<MaxPointer, MaxPointer>>)

\* C15 (checked under SpecGesture): with an on_confirm callback, the confirm
\* key with no rectangle changes nothing (nothing emitted, overlay open); with
\* a rectangle it hands the callback, once, the Region whose left and top are
\* the smaller horizontal and the smaller vertical edge plus the monitor
\* origin and whose width and height are the rectangle's extents, destroys
\* the overlay, and makes no ocr_and_copy call and no clipboard write.
C15_ConfirmWithCallbackEmitsOnce ==
    [][ on_confirm => \A env \in SessionEnvs :
          _on_capture(env) =>
              IF selection = None
              THEN UNCHANGED vars
              ELSE LET r == The(selection)
                       region == Region(lesser(r.left, r.right) + virtual_left,
                                        lesser(r.top, r.bottom) + virtual_top,
                                        span_x(r), span_y(r))
                   IN  /\ emitted' = emitted \o <<region>>
                       /\ Len(emitted') = Len(emitted) + 1
                       /\ root' = "destroyed"
                       /\ call' = call /\ call' = NoCall
                       /\ clipboard' = clipboard
      ]_vars

\* C15 witness: confirm pressed during a draw whose corner points are
\* reversed, on a virtual desktop with a negative origin
C15_Witness_EmittedOnNegativeOrigin ==
    /\ on_confirm
    /\ root = "destroyed"
    /\ Len(emitted) = 1
    /\ virtual_left < 0
    /\ selection # None
    /\ The(selection).right < The(selection).left
    /\ emitted[1].left = The(selection).right + virtual_left
    /\ call = NoCall

\* C16 (as claimed; checked under Spec): once the confirm key of a session
\* without callback has called ocr_and_copy, the overlay is destroyed,
\* whether the call copied the text, rejected the region as too small or
\* raised; the overlay is never left withdrawn.
C16_ConfirmWithoutCallbackDestroysOverlay ==
    (~on_confirm /\ call.args # None) => (root = "destroyed" /\ root # "withdrawn")

\* C17 (checked under Spec): the cancel key, in whatever state the engine is,
\* destroys the overlay and changes nothing else: nothing is handed to the
\* callback, no ocr_and_copy call is made, the clipboard, the bookmark store
\* and the bookmark file are as before; and once the overlay is destroyed no
\* Region is emitted any more.
C17_CancelDestroysAndEmitsNothing ==
    [][ /\ _on_cancel =>
              /\ root' = "destroyed"
              /\ emitted' = emitted
              /\ preview_region' = preview_region
              /\ call' = call
              /\ clipboard' = clipboard
              /\ bookmarks' = bookmarks
              /\ file' = file
        /\ root = "destroyed" => (emitted' = emitted /\ call' = call /\ root' = "destroyed")
      ]_vars

\* C17 witness: a session with a callback and a stored bookmark was cancelled
\* in the middle of a draw
C17_Witness_CancelledWhileDrawing ==
    /\ root = "destroyed"
    /\ on_confirm
    /\ emitted = <<>>
    /\ pressed
    /\ drag_mode = "new"
    /\ selection # None
    /\ bookmarks # EmptyDict

\* C18 (checked under Spec): the save-bookmark key, in every engine state and
\* for every answer to the name prompt (dismissed, empty, a name), leaves the
\* rectangle's four edges, the drag mode and the drag anchor as they were, and
\* the overlay open: neither the handler's part before the prompt nor its part
\* after the answer changes any of them or closes the overlay.
C18_SaveLeavesSelectionState ==
    [][ /\ _on_save_bookmark =>
              /\ selection' = selection
              /\ drag_mode' = drag_mode
              /\ start_point' = start_point
              /\ pressed' = pressed
              /\ root' = "open"
        /\ prompt => \A answer \in SaveAnswers :
              _on_save_bookmark_answered(answer) =>
                  /\ selection' = selection
                  /\ drag_mode' = drag_mode
                  /\ start_point' = start_point
                  /\ pressed' = pressed
                  /\ root' = root
      ]_vars

\* C18 witness: a bookmark was saved in the middle of a draw whose corner
\* points are reversed, and the rectangle is still as drawn
C18_Witness_SavedDuringReversedDraw ==
    /\ root = "open"
    /\ pressed
    /\ drag_mode = "new"
    /\ selection # None
    /\ The(selection).right < The(selection).left
    /\ typed_name \in DOMAIN bookmarks
    /\ bookmarks[typed_name].left = The(selection).right + virtual_left
    /\ bookmarks[typed_name].width = The(selection).left - The(selection).right
    /\ file # None

\* C19 (checked under Spec): a step that changes the bookmark store or the
\* bookmark file is the save-bookmark handler going on from its name prompt
\* with a rectangle present and a non-empty name; it puts under that name the
\* bookmark (smaller horizontal edge + virtual_left, smaller vertical edge +
\* virtual_top, horizontal extent, vertical extent), leaves every other name's
\* bookmark as it was, and writes the file.  Pointer events, confirm, cancel, and save-bookmark with
\* no rectangle or with an empty or dismissed name change neither.
C19_StoreChangedOnlyBySave ==
    [][ /\ (bookmarks' # bookmarks \/ file' # file) =>
              /\ prompt
              /\ selection # None
              /\ typed_name # <<>>
              /\ _on_save_bookmark_answered(Some(typed_name))
              /\ DOMAIN bookmarks' = DOMAIN bookmarks \cup {typed_name}
              /\ LET r == The(selection)
                 IN  bookmarks'[typed_name] =
                        Bookmark(typed_name, lesser(r.left, r.right) + virtual_left,
                                 lesser(r.top, r.bottom) + virtual_top, span_x(r), span_y(r))
              /\ \A n \in DOMAIN bookmarks \ {typed_name} : bookmarks'[n] = bookmarks[n]
              /\ file' # None
        /\ (root' # root \/ selection' # selection \/ start_point' # start_point
               \/ emitted' # emitted \/ call' # call \/ pressed' # pressed) =>
              (bookmarks' = bookmarks /\ file' = file)
        /\ _on_save_bookmark => (bookmarks' = bookmarks /\ file' = file)
        /\ \A answer \in {None, Some(<<>>)} :
              _on_save_bookmark_answered(answer) => (bookmarks' = bookmarks /\ file' = file)
      ]_vars

\* C19 witness: in the --adjust-bookmark flow a second bookmark was saved and
\* the confirm key then copied the text; store and file hold both bookmarks
C19_Witness_SavedThenConfirmed ==
    /\ ~on_confirm
    /\ root = "destroyed"
    /\ call.copied # None
    /\ Cardinality(DOMAIN bookmarks) = 2
    /\ file # None
    /\ load_bookmarks(file) = bookmarks

\* C20 (checked under SpecSeed): when the overlay is opened seeded with the
\* Region R (width and height >= 0) and the confirm key is pressed before any
\* pointer event, the Region handed to the callback is R: same left, top,
\* width and height, for every monitor origin.
C20_SeededConfirmEmitsTheSeed ==
    [][ (preview_region # None /\ emitted' # emitted) =>
            /\ emitted' = <<The(preview_region)>>
            /\ emitted'[1].left = The(preview_region).left
            /\ emitted'[1].top = The(preview_region).top
            /\ emitted'[1].width = The(preview_region).width
            /\ emitted'[1].height = The(preview_region).height
            /\ preview_region' = preview_region
      ]_vars

\* C20 witness: a seed of width 0 lying left of a negative monitor origin has
\* been confirmed
C20_Witness_ZeroWidthSeedConfirmed ==
    /\ root = "destroyed"
    /\ Len(emitted) = 1
    /\ virtual_left < 0
    /\ emitted[1].left < virtual_left
    /\ emitted[1].width = 0
    /\ emitted[1].height = MaxPointer

\* C21 (checked under SpecGesture): a pointer-move that arrives while no
\* press-release gesture is in progress (before the first pointer-down of the
\* session, seeded or not, or after a pointer-up, whether it kept the
\* rectangle or discarded it) leaves the rectangle exactly as it was and
\* creates none; the drag mode and the drag anchor are unchanged too.
C21_MoveOutsideGestureChangesNothing ==
    [][ ~pressed => \A x \in GestureXs, y \in GestureYs :
          _on_mouse_drag(x, y) =>
              /\ selection' = selection
              /\ drag_mode' = drag_mode
              /\ start_point' = start_point
      ]_vars

\* C21 witness: in a seeded session a pointer-up has discarded a new draw,
\* whose anchor is still set, and no button is held: a pointer-move now finds
\* no rectangle and must create none
C21_Witness_AfterDiscardingRelease ==
    /\ root = "open"
    /\ ~pressed
    /\ preview_region # None
    /\ selection = None
    /\ drag_mode = "new"
    /\ start_point # None

====
